---- MODULE Spec2Model ----
(***************************************************************************)
(* simplefs: the format tool (mkfs.c), the mount loader and the sync      *)
(* routine (super.c), and the unmount entry point (fs.c), as one state    *)
(* machine over a block device.                                           *)
(*                                                                         *)
(* Representation.                                                         *)
(*  - A 32-bit on-disk field is its four bytes in storage order.          *)
(*  - A bitmap block is the set of its bit indices that hold 0 (used);    *)
(*    index 8*j+k is bit k of byte j of the block, which is where         *)
(*    htole64 puts bit (index % 64) of 64-bit word (index \div 64).       *)
(*  - A 64-bit word of the bitmap buffer is the set of its bit positions  *)
(*    that hold 0.                                                         *)
(*  - off_t is 64 bits wide and TLC's integers are 32: a byte count is    *)
(*    the pair <<q, r>> standing for q * SIMPLEFS_BLOCK_SIZE + r with     *)
(*    0 <= r < SIMPLEFS_BLOCK_SIZE.                                        *)
(*  - The hosts of the lifecycle are little-endian; the superblock on     *)
(*    hosts of either byte order is followed apart (codec), a uint32_t    *)
(*    there being its four digits to base 256, low digit first.           *)
(***************************************************************************)
EXTENDS Integers, Sequences, FiniteSets, TLC

----------------------------------------------------------------------------
(* Program constants *)

SIMPLEFS_BLOCK_SIZE == 4096

SIMPLEFS_INODES_PER_BLOCK == 56

SIMPLEFS_MAGIC == 14593486

SIMPLEFS_SB_BLOCK_NR == 0

MinSizeBlocks == 100

WordBits == 64

RootMode == 16893

BitsPerBlock == SIMPLEFS_BLOCK_SIZE * 8

WordsPerBlock == SIMPLEFS_BLOCK_SIZE \div 8

----------------------------------------------------------------------------
(* Bounds of the model *)

\* Device sizes are taken at 0..MaxDelta whole blocks above each base size.
MaxDelta == 2

\* A write of the format tool may be made to fail at offsets 0..MaxFailAt of
\* each of its four steps.
MaxFailAt == 1

----------------------------------------------------------------------------
(* Byte counts and 32-bit fields *)

Bytes(q, r) == <<q, r>>

\* st_size / SIMPLEFS_BLOCK_SIZE
SizeDiv(sz) == sz[1]

\* a <= b on byte counts
SizeLeq(a, b) == a[1] < b[1] \/ (a[1] = b[1] /\ a[2] <= b[2])

\* long int min_size = 100 * SIMPLEFS_BLOCK_SIZE
\* A size check that also turns away a device of MinSizeBlocks whole blocks
\* and a part of a block.
min_size_whole_blocks == Bytes(MinSizeBlocks, SIMPLEFS_BLOCK_SIZE - 1)

\* long int min_size = 100 * SIMPLEFS_BLOCK_SIZE
min_size == Bytes(MinSizeBlocks, 0)

htole32(x) ==
    << x % 256, (x \div 256) % 256, (x \div 65536) % 256, (x \div 16777216) % 256 >>

le32toh(b) == b[1] + 256 * b[2] + 65536 * b[3] + 16777216 * b[4]

\* A field read without conversion by a little-endian host.
cpu32(b) == b[1] + 256 * b[2] + 65536 * b[3] + 16777216 * b[4]

\* A field stored without conversion by a little-endian host.
cpu32_store(x) ==
    << x % 256, (x \div 256) % 256, (x \div 65536) % 256, (x \div 16777216) % 256 >>

idiv_ceil(a, b) == IF a % b # 0 THEN (a \div b) + 1 ELSE a \div b

\* A loop `while (Cond(st)) st = Body(st)` that ends within n passes: the state
\* it ends in.  The first half of the passes is evaluated before the second,
\* so that the evaluation nests log n deep.
RECURSIVE While(_, _, _, _)
While(Cond(_), Body(_), st, n) ==
    IF ~Cond(st) \/ n = 0
    THEN st
    ELSE IF n = 1
         THEN Body(st)
         ELSE LET half == While(Cond, Body, st, n \div 2) IN
              IF ~Cond(half) THEN half
              ELSE While(Cond, Body, half, n - (n \div 2))

----------------------------------------------------------------------------
(* Blocks *)

ZeroBlock == [kind |-> "zero"]

SbBlock(info) == [kind |-> "sb", info |-> info]

InodeBlock(inode) == [kind |-> "inodes", inode0 |-> inode]

BitmapBlock(zeros) == [kind |-> "bitmap", zeros |-> zeros]

\* memset(block, 0xff, SIMPLEFS_BLOCK_SIZE) seen as 64-bit words
OnesBuffer == [w \in 0..(WordsPerBlock - 1) |-> {}]

\* The block a buffer of 64-bit words is written as.
BlockOfWords(buf) ==
    LET ws == { w \in DOMAIN buf : buf[w] # {} } IN
    BitmapBlock({ b \in { WordBits * w + k : w \in ws, k \in 0..(WordBits - 1) } :
                    (b % WordBits) \in buf[b \div WordBits] })

\* The leading 32-bit fields of a superblock or inode block, in storage order.
FieldsOf(blk) ==
    IF blk.kind = "sb"
    THEN << blk.info.magic, blk.info.nr_blocks, blk.info.nr_inodes,
            blk.info.nr_istore_blocks, blk.info.nr_ifree_blocks,
            blk.info.nr_bfree_blocks, blk.info.nr_free_inodes,
            blk.info.nr_free_blocks >>
    ELSE << blk.inode0.i_mode, blk.inode0.i_uid, blk.inode0.i_gid,
            blk.inode0.i_size, blk.inode0.i_ctime, blk.inode0.i_atime,
            blk.inode0.i_mtime, blk.inode0.i_blocks, blk.inode0.i_nlink,
            blk.inode0.ei_block >>

\* Bit b of a block that holds the fields fs and zeros after them.
FieldBit(fs, b) ==
    IF b \div 32 >= Len(fs) THEN 0
    ELSE (fs[(b \div 32) + 1][((b % 32) \div 8) + 1] \div (2 ^ (b % 8))) % 2

\* The bit indices of a block that hold 0, whatever wrote the block.
ZeroBits(blk) ==
    IF blk.kind = "bitmap" THEN blk.zeros
    ELSE IF blk.kind = "zero" THEN 0..(BitsPerBlock - 1)
    ELSE { b \in 0..(BitsPerBlock - 1) : FieldBit(FieldsOf(blk), b) = 0 }

\* Byte j of a block given by its zero bits.
ByteOf(zeros, j) ==
    LET bit(k) == IF (8 * j + k) \in zeros THEN 0 ELSE 2 ^ k IN
    bit(0) + bit(1) + bit(2) + bit(3) + bit(4) + bit(5) + bit(6) + bit(7)

\* Field number f (from 0) of a block, as (struct simplefs_sb_info *) b_data
\* sees it, whatever wrote the block.
FieldAt(blk, f) ==
    IF blk.kind = "zero" THEN << 0, 0, 0, 0 >>
    ELSE IF blk.kind = "bitmap"
         THEN << ByteOf(blk.zeros, 4 * f), ByteOf(blk.zeros, 4 * f + 1),
                 ByteOf(blk.zeros, 4 * f + 2), ByteOf(blk.zeros, 4 * f + 3) >>
         ELSE FieldsOf(blk)[f + 1]

SbOf(blk) ==
    [magic |-> FieldAt(blk, 0), nr_blocks |-> FieldAt(blk, 1),
     nr_inodes |-> FieldAt(blk, 2), nr_istore_blocks |-> FieldAt(blk, 3),
     nr_ifree_blocks |-> FieldAt(blk, 4), nr_bfree_blocks |-> FieldAt(blk, 5),
     nr_free_inodes |-> FieldAt(blk, 6), nr_free_blocks |-> FieldAt(blk, 7)]

----------------------------------------------------------------------------
(* mkfs.c *)

NoFail == [step |-> "none", kind |-> "none", at |-> 0]

MallocFails(fail, step) == fail.step = step /\ fail.kind = "malloc"

\* The write() call number k (from 0) of a step returns short or -1.
WriteFails(fail, step, k) == fail.step = step /\ fail.kind = "write" /\ fail.at = k

Geometry(st_size) ==
    LET nr_blocks == SizeDiv(st_size)
        mod == nr_blocks % SIMPLEFS_INODES_PER_BLOCK
        nr_inodes == IF mod # 0
                     THEN nr_blocks + (SIMPLEFS_INODES_PER_BLOCK - mod)
                     ELSE nr_blocks
        nr_istore_blocks == idiv_ceil(nr_inodes, SIMPLEFS_INODES_PER_BLOCK)
        nr_ifree_blocks == idiv_ceil(nr_inodes, SIMPLEFS_BLOCK_SIZE * 8)
        nr_bfree_blocks == idiv_ceil(nr_blocks, SIMPLEFS_BLOCK_SIZE * 8)
        nr_data_blocks ==
            nr_blocks - nr_istore_blocks - nr_ifree_blocks - nr_bfree_blocks
    IN  [nr_blocks |-> nr_blocks, nr_inodes |-> nr_inodes,
         nr_istore_blocks |-> nr_istore_blocks,
         nr_ifree_blocks |-> nr_ifree_blocks,
         nr_bfree_blocks |-> nr_bfree_blocks,
         nr_data_blocks |-> nr_data_blocks]

SbInfo(g) ==
    [magic |-> htole32(SIMPLEFS_MAGIC),
     nr_blocks |-> htole32(g.nr_blocks),
     nr_inodes |-> htole32(g.nr_inodes),
     nr_istore_blocks |-> htole32(g.nr_istore_blocks),
     nr_ifree_blocks |-> htole32(g.nr_ifree_blocks),
     nr_bfree_blocks |-> htole32(g.nr_bfree_blocks),
     nr_free_inodes |-> htole32(g.nr_inodes - 1),
     nr_free_blocks |-> htole32(g.nr_data_blocks - 1)]

\* free(p) on the set of the buffers that malloc gave and free has not taken
free_buf(heap, p) == heap \ {p}

\* null: NULL is returned; else sb is the superblock kept in memory. out: the
\* blocks written.  live: the buffers of the function not freed at its return.
\* met: a malloc or a write of the function failed.
write_superblock(st_size, fail) ==
    LET info == SbInfo(Geometry(st_size)) IN
    IF MallocFails(fail, "sb")
    THEN [null |-> TRUE, sb |-> info, out |-> <<>>, live |-> {}, met |-> TRUE]
    ELSE IF WriteFails(fail, "sb", 0)
         THEN [null |-> TRUE, sb |-> info, out |-> <<>>,
               live |-> free_buf({"sb"}, "sb"), met |-> TRUE]
         ELSE [null |-> FALSE, sb |-> info, out |-> << SbBlock(info) >>,
               live |-> {"sb"}, met |-> FALSE]

RootInode(sb) ==
    LET first_data_block == 1 + le32toh(sb.nr_bfree_blocks)
                              + le32toh(sb.nr_ifree_blocks)
                              + le32toh(sb.nr_istore_blocks)
    IN  [i_mode |-> htole32(RootMode),
         i_uid |-> htole32(0),
         i_gid |-> htole32(0),
         i_size |-> htole32(SIMPLEFS_BLOCK_SIZE),
         i_ctime |-> htole32(0),
         i_atime |-> htole32(0),
         i_mtime |-> htole32(0),
         i_blocks |-> htole32(1),
         i_nlink |-> htole32(2),
         ei_block |-> htole32(first_data_block)]

\* A loop of writes that goes on after a write that failed and ends with
\* status 0.
WriteRest_unchecked(step, fail, block, n, first) ==
    [ret |-> 0, live |-> {},
     out |-> first \o [i \in 1..(IF n > 1 THEN n - 1 ELSE 0) |-> block],
     met |-> \E i \in 1..(IF n > 1 THEN n - 1 ELSE 0) :
                WriteFails(fail, step, i)]

\* for (i = 1; i < n; i++) write(fd, block, SIMPLEFS_BLOCK_SIZE), after a
\* first write, then end: free(block): the blocks written, the status, and
\* the buffers of the function not freed.
WriteRest(step, fail, block, n, first) ==
    LET last == IF n > 1 THEN n - 1 ELSE 0
        bad == { i \in 1..last : WriteFails(fail, step, i) }
        live == free_buf({"block"}, "block")
    IN  IF bad = {}
        THEN [ret |-> 0, out |-> first \o [i \in 1..last |-> block],
              live |-> live, met |-> FALSE]
        ELSE LET k == CHOOSE i \in bad : \A j \in bad : i <= j IN
             [ret |-> -1, out |-> first \o [i \in 1..(k - 1) |-> block],
              live |-> live, met |-> TRUE]

write_inode_store(sb, fail) ==
    IF MallocFails(fail, "istore")
    THEN [ret |-> -1, out |-> <<>>, live |-> {}, met |-> TRUE]
    ELSE IF WriteFails(fail, "istore", 0)
         THEN [ret |-> -1, out |-> <<>>, live |-> free_buf({"block"}, "block"),
               met |-> TRUE]
         ELSE WriteRest("istore", fail, ZeroBlock, cpu32(sb.nr_istore_blocks),
                        << InodeBlock(RootInode(sb)) >>)

write_ifree_blocks(sb, fail) ==
    IF MallocFails(fail, "ifree")
    THEN [ret |-> -1, out |-> <<>>, live |-> {}, met |-> TRUE]
    ELSE LET ifree == [OnesBuffer EXCEPT ![0] = {0}] IN
         IF WriteFails(fail, "ifree", 0)
         THEN [ret |-> -1, out |-> <<>>, live |-> free_buf({"block"}, "block"),
               met |-> TRUE]
         ELSE WriteRest("ifree", fail,
                        BlockOfWords([ifree EXCEPT ![0] = {}]),
                        le32toh(sb.nr_ifree_blocks),
                        << BlockOfWords(ifree) >>)

\* for (mask = 0x1; mask; mask <<= 1) over st = [line, k, nr_used, brk], where
\* mask = 1 << k (0 once k = WordBits) and brk says that break was taken.
LineCond(st) == ~st.brk /\ st.k < WordBits

\* line &= ~mask; nr_used--; if (!nr_used) break; and, without the break,
\* mask <<= 1.
LineBody(st) ==
    [line |-> st.line \cup {st.k},
     k |-> IF st.nr_used - 1 = 0 THEN st.k ELSE st.k + 1,
     nr_used |-> st.nr_used - 1,
     brk |-> st.nr_used - 1 = 0]

\* uint64_t line = 0xffffffffffffffff, then the for loop.
ClearLine(nr_used) ==
    While(LineCond, LineBody,
          [line |-> {}, k |-> 0, nr_used |-> nr_used, brk |-> FALSE], WordBits)

\* bfree[i] = htole64(line): a store at or past the end of the one-block
\* buffer does not reach the buffer.
StoreWord(bfree, i, line) ==
    IF i < WordsPerBlock THEN [bfree EXCEPT ![i] = line] ELSE bfree

\* while (nr_used) over st = [bfree, i, nr_used].
UsedCond(st) == st.nr_used # 0

UsedBody(st) ==
    LET r == ClearLine(st.nr_used) IN
    [bfree |-> StoreWord(st.bfree, st.i, r.line), i |-> st.i + 1,
     nr_used |-> r.nr_used]

\* Every pass takes at least one from nr_used: there are at most nr_used.
MarkUsed(bfree, nr_used) ==
    While(UsedCond, UsedBody, [bfree |-> bfree, i |-> 0, nr_used |-> nr_used],
          nr_used)

\* A count of the used blocks that leaves out the block of the root
\* directory.
NrUsed_without_root(sb) ==
    le32toh(sb.nr_istore_blocks) + le32toh(sb.nr_ifree_blocks)
        + le32toh(sb.nr_bfree_blocks) + 1

\* uint32_t nr_used = nr_istore_blocks + nr_ifree_blocks + nr_bfree_blocks + 2
NrUsed(sb) ==
    le32toh(sb.nr_istore_blocks) + le32toh(sb.nr_ifree_blocks)
        + le32toh(sb.nr_bfree_blocks) + 2

\* oob: a word was stored outside the buffer malloc returned.
write_bfree_blocks(sb, fail) ==
    IF MallocFails(fail, "bfree")
    THEN [ret |-> -1, out |-> <<>>, oob |-> FALSE, live |-> {}, met |-> TRUE]
    ELSE LET m == MarkUsed(OnesBuffer, NrUsed(sb))
             oob == m.i > WordsPerBlock
         IN  IF WriteFails(fail, "bfree", 0)
             THEN [ret |-> -1, out |-> <<>>, oob |-> oob,
                   live |-> free_buf({"block"}, "block"), met |-> TRUE]
             ELSE [oob |-> oob] @@
                  WriteRest("bfree", fail, BlockOfWords(OnesBuffer),
                            le32toh(sb.nr_bfree_blocks),
                            << BlockOfWords(m.bfree) >>)

EXIT_SUCCESS == 0

EXIT_FAILURE == 1

\* main() from the size check on (met: a malloc or a write failed; live: the
\* buffers not freed at the return): the exit status, the step the diagnostic on
\* stderr names ("size": the device is not large enough; "none": no
\* diagnostic), the blocks written from offset 0 of the device, how many of
\* them were written before write_bfree_blocks was entered, and whether
\* write_bfree_blocks wrote the heap out of bounds.
mkfs_main(st_size, fail) ==
    IF SizeLeq(st_size, min_size)
    THEN [ret |-> EXIT_FAILURE, err |-> "size", out |-> <<>>, pre |-> 0,
          oob |-> FALSE, live |-> {}, met |-> FALSE]
    ELSE LET s == write_superblock(st_size, fail) IN
    IF s.null
    THEN [ret |-> EXIT_FAILURE, err |-> "sb", out |-> s.out, pre |-> 0,
          oob |-> FALSE, live |-> s.live, met |-> s.met]
    ELSE LET a == write_inode_store(s.sb, fail) IN
    IF a.ret # 0
    THEN [ret |-> EXIT_FAILURE, err |-> "istore", out |-> s.out \o a.out,
          pre |-> 0, oob |-> FALSE, live |-> free_buf(s.live \cup a.live, "sb"),
          met |-> a.met]
    ELSE LET b == write_ifree_blocks(s.sb, fail) IN
    IF b.ret # 0
    THEN [ret |-> EXIT_FAILURE, err |-> "ifree",
          out |-> s.out \o a.out \o b.out, pre |-> 0, oob |-> FALSE,
          live |-> free_buf(s.live \cup a.live \cup b.live, "sb"),
          met |-> a.met \/ b.met]
    ELSE LET c == write_bfree_blocks(s.sb, fail)
             pre == s.out \o a.out \o b.out
         IN
    [ret |-> IF c.ret # 0 THEN EXIT_FAILURE ELSE EXIT_SUCCESS,
     err |-> IF c.ret # 0 THEN "bfree" ELSE "none",
     out |-> pre \o c.out, pre |-> Len(pre), oob |-> c.oob,
     live |-> free_buf(s.live \cup a.live \cup b.live \cup c.live, "sb"),
     met |-> a.met \/ b.met \/ c.met]

----------------------------------------------------------------------------
(* The block layer under super.c *)

NullBh == -1

EIO == 5

ENOMEM == 12

EINVAL == 22

\* Block idx of the device; a block never written reads as zeros.
ReadBlock(d, idx) == IF idx < Len(d) THEN d[idx + 1] ELSE ZeroBlock

WriteBlock(d, idx, blk) ==
    [i \in 1..(IF idx + 1 > Len(d) THEN idx + 1 ELSE Len(d)) |->
        IF i = idx + 1 THEN blk ELSE IF i <= Len(d) THEN d[i] ELSE ZeroBlock]

\* The device after `out` was written from offset 0.
WriteFrom0(d, out) ==
    [i \in 1..(IF Len(out) > Len(d) THEN Len(out) ELSE Len(d)) |->
        IF i <= Len(out) THEN out[i] ELSE d[i]]

\* b_data of the buffer sb_bread returns: the dirty buffer of the block when
\* there is one, else the block of the device.
Bread(c, d, idx) == IF idx \in DOMAIN c THEN c[idx] ELSE ReadBlock(d, idx)

\* brelse(bh) on the references k = [held, over] to buffers: NULL is ignored,
\* and a buffer no reference is held of counts in over.
brelse(k, bh) ==
    IF bh = NullBh THEN k
    ELSE IF bh \in k.held THEN [k EXCEPT !.held = @ \ {bh}]
         ELSE [k EXCEPT !.over = @ + 1]

kfree(p) ==
    IF p = "live" THEN "freed" ELSE IF p = "none" THEN "none" ELSE "freed twice"

----------------------------------------------------------------------------
(* super.c: simplefs_fill_super *)

NoSbi == [nr_blocks |-> 0, nr_inodes |-> 0, nr_istore_blocks |-> 0,
          nr_ifree_blocks |-> 0, nr_bfree_blocks |-> 0, nr_free_inodes |-> 0,
          nr_free_blocks |-> 0, ifree_bitmap |-> <<>>, bfree_bitmap |-> <<>>]

NoHeap == [sbi |-> "none", ifree_bitmap |-> "none", bfree_bitmap |-> "none"]

MountNoFail == [what |-> "none", at |-> 0]

\* sbi->... = csb->... of lines 314 to 320
CopyCounters(csb) ==
    [NoSbi EXCEPT !.nr_blocks = cpu32(csb.nr_blocks),
                  !.nr_inodes = cpu32(csb.nr_inodes),
                  !.nr_istore_blocks = cpu32(csb.nr_istore_blocks),
                  !.nr_ifree_blocks = cpu32(csb.nr_ifree_blocks),
                  !.nr_bfree_blocks = cpu32(csb.nr_bfree_blocks),
                  !.nr_free_inodes = cpu32(csb.nr_free_inodes),
                  !.nr_free_blocks = cpu32(csb.nr_free_blocks)]

\* for (i = 0; i < n; i++) { bh = sb_bread(sb, first + i); if (!bh) goto ...;
\* memcpy(bitmap + i * SIMPLEFS_BLOCK_SIZE, bh->b_data, ...); brelse(bh); }
\* failAt: the pass whose read fails (-1: none); a read past the end of the
\* device fails.  bh: the value of bh after the loop, bh0 before it.
LoadBitmap(c, d, nblk, first, n, failAt, bh0) ==
    LET bad == { i \in 0..(n - 1) : i = failAt \/ first + i >= nblk } IN
    IF bad # {}
    THEN [ok |-> FALSE, bitmap |-> <<>>, bh |-> NullBh]
    ELSE [ok |-> TRUE,
          bitmap |-> [i \in 1..n |-> ZeroBits(Bread(c, d, first + i - 1))],
          bh |-> IF n > 0 THEN first + n - 1 ELSE bh0]

\* The labels iput, free_bfree, free_ifree, free_sbi, release, entered at
\* `label`, and the return.
ExitAt(label, ret, fsinfo, heap, k, bh) ==
    LET lv == CASE label = "iput" -> 4 [] label = "free_bfree" -> 3
                [] label = "free_ifree" -> 2 [] label = "free_sbi" -> 1
                [] OTHER -> 0
    IN  [ret |-> ret, s_fs_info |-> fsinfo, s_root |-> "NULL",
         heap |-> [sbi |-> IF lv >= 1 THEN kfree(heap.sbi) ELSE heap.sbi,
                   ifree_bitmap |-> IF lv >= 2 THEN kfree(heap.ifree_bitmap)
                                    ELSE heap.ifree_bitmap,
                   bfree_bitmap |-> IF lv >= 3 THEN kfree(heap.bfree_bitmap)
                                    ELSE heap.bfree_bitmap],
         sbi |-> NoSbi, bh |-> brelse(k, bh),
         iput |-> IF lv >= 4 THEN 1 ELSE 0]

\* A check of the magic that compares its two low bytes only.
MagicOk_low_bytes(csb) == cpu32(csb.magic) % 65536 = SIMPLEFS_MAGIC % 65536

\* csb->magic != sb->s_magic, with sb->s_magic = SIMPLEFS_MAGIC
MagicOk(csb) == cpu32(csb.magic) = SIMPLEFS_MAGIC

fill_super(c, d, nblk, fail) ==
    LET k0 == [held |-> {}, over |-> 0] IN
    IF fail.what = "read_sb" \/ SIMPLEFS_SB_BLOCK_NR >= nblk
    THEN [ret |-> -EIO, s_fs_info |-> "NULL", s_root |-> "NULL",
          heap |-> NoHeap, sbi |-> NoSbi, bh |-> k0, iput |-> 0]
    ELSE
    LET bh0 == SIMPLEFS_SB_BLOCK_NR
        k1 == [k0 EXCEPT !.held = {bh0}]
        csb == SbOf(Bread(c, d, bh0))
    IN
    IF ~MagicOk(csb)
    THEN ExitAt("release", -EINVAL, "NULL", NoHeap, k1, bh0)
    ELSE IF fail.what = "alloc_sbi"
    THEN ExitAt("release", -ENOMEM, "NULL", NoHeap, k1, bh0)
    ELSE
    LET sbi0 == CopyCounters(csb)
        h1 == [NoHeap EXCEPT !.sbi = "live"]
        k2 == brelse(k1, bh0)
    IN
    IF fail.what = "alloc_ifree"
    THEN ExitAt("free_sbi", -ENOMEM, "sbi", h1, k2, bh0)
    ELSE
    LET h2 == [h1 EXCEPT !.ifree_bitmap = "live"]
        li == LoadBitmap(c, d, nblk, sbi0.nr_istore_blocks + 1,
                         sbi0.nr_ifree_blocks,
                         IF fail.what = "read_ifree" THEN fail.at ELSE -1, bh0)
    IN
    IF ~li.ok
    THEN ExitAt("free_ifree", -EIO, "sbi", h2, k2, li.bh)
    ELSE IF fail.what = "alloc_bfree"
    THEN ExitAt("free_ifree", -ENOMEM, "sbi", h2, k2, li.bh)
    ELSE
    LET h3 == [h2 EXCEPT !.bfree_bitmap = "live"]
        lb == LoadBitmap(c, d, nblk,
                         sbi0.nr_istore_blocks + sbi0.nr_ifree_blocks + 1,
                         sbi0.nr_bfree_blocks,
                         IF fail.what = "read_bfree" THEN fail.at ELSE -1, li.bh)
    IN
    IF ~lb.ok
    THEN ExitAt("free_bfree", -EIO, "sbi", h3, k2, lb.bh)
    ELSE IF fail.what = "iget"
    THEN ExitAt("free_bfree", -ENOMEM, "sbi", h3, k2, lb.bh)
    ELSE IF fail.what = "d_make_root"
    THEN ExitAt("iput", -ENOMEM, "sbi", h3, k2, lb.bh)
    ELSE [ret |-> 0, s_fs_info |-> "sbi", s_root |-> "root", heap |-> h3,
          sbi |-> [sbi0 EXCEPT !.ifree_bitmap = li.bitmap,
                               !.bfree_bitmap = lb.bitmap],
          bh |-> k2, iput |-> 0]

----------------------------------------------------------------------------
(* super.c: simplefs_statfs *)

simplefs_statfs(sbi) ==
    [f_type |-> SIMPLEFS_MAGIC,
     f_bsize |-> SIMPLEFS_BLOCK_SIZE,
     f_blocks |-> sbi.nr_blocks,
     f_bfree |-> sbi.nr_free_blocks,
     f_bavail |-> sbi.nr_free_blocks,
     f_files |-> sbi.nr_inodes - sbi.nr_free_inodes,
     f_ffree |-> sbi.nr_free_inodes]

----------------------------------------------------------------------------
(* super.c: simplefs_sync_fs and simplefs_put_super *)

\* The blocks simplefs_sync_fs goes through are numbered from 0: the
\* superblock, then the nr_ifree_blocks blocks of the inode bitmap, then the
\* nr_bfree_blocks blocks of the block bitmap.
SyncCount(sbi) == 1 + sbi.nr_ifree_blocks + sbi.nr_bfree_blocks

\* The passes of simplefs_sync_fs counted from block 0 with no block left
\* out for the inode store.
SyncIdx_without_istore(sbi, p) == p

\* int idx of the pass at position p
SyncIdx(sbi, p) ==
    IF p = 0 THEN 0
    ELSE IF p <= sbi.nr_ifree_blocks
         THEN sbi.nr_istore_blocks + (p - 1) + 1
         ELSE sbi.nr_istore_blocks + sbi.nr_ifree_blocks
                + (p - 1 - sbi.nr_ifree_blocks) + 1

\* b_data of the buffer of position p when the pass is done with it.
SyncData(c, d, sbi, p) ==
    IF p = 0
    THEN SbBlock([SbOf(Bread(c, d, 0)) EXCEPT
                    !.nr_blocks = cpu32_store(sbi.nr_blocks),
                    !.nr_inodes = cpu32_store(sbi.nr_inodes),
                    !.nr_istore_blocks = cpu32_store(sbi.nr_istore_blocks),
                    !.nr_ifree_blocks = cpu32_store(sbi.nr_ifree_blocks),
                    !.nr_bfree_blocks = cpu32_store(sbi.nr_bfree_blocks),
                    !.nr_free_inodes = cpu32_store(sbi.nr_free_inodes),
                    !.nr_free_blocks = cpu32_store(sbi.nr_free_blocks)])
    ELSE IF p <= sbi.nr_ifree_blocks
         THEN BitmapBlock(sbi.ifree_bitmap[p])
         ELSE BitmapBlock(sbi.bfree_bitmap[p - sbi.nr_ifree_blocks])

\* rfail: the position whose sb_bread returns NULL (-1: none); a read past the
\* end of the device fails too.  wfail: the position whose write to the device
\* fails inside sync_dirty_buffer (-1: none), whose result is not looked at:
\* the buffer is left neither dirty nor up to date, so that the block is read
\* from the device again.  Returns the status, the dirty buffers, the device,
\* and the number of passes done.
simplefs_sync_fs(c, d, nblk, sbi, wait, rfail, wfail) ==
    LET n == SyncCount(sbi)
        bad == { p \in 0..(n - 1) : p = rfail \/ SyncIdx(sbi, p) >= nblk }
        stop == IF bad = {} THEN n
                ELSE CHOOSE p \in bad : \A q \in bad : p <= q
        done == 0..(stop - 1)
        \* the position that writes block j, or -1
        pos(j) == IF j = 0 THEN 0
                  ELSE IF j - sbi.nr_istore_blocks >= 1
                          /\ j - sbi.nr_istore_blocks <= n - 1
                       THEN j - sbi.nr_istore_blocks ELSE -1
        top == IF stop = 0 THEN 0 ELSE SyncIdx(sbi, stop - 1) + 1
        through(p) == wait /\ p \in done /\ p # wfail
        touched == { SyncIdx(sbi, p) : p \in done }
    IN  [ret |-> IF stop < n THEN -EIO ELSE 0,
         passes |-> stop,
         disk |-> IF ~wait THEN d
                  ELSE [i \in 1..(IF top > Len(d) THEN top ELSE Len(d)) |->
                          IF through(pos(i - 1))
                          THEN SyncData(c, d, sbi, pos(i - 1))
                          ELSE ReadBlock(d, i - 1)],
         cache |-> IF wait
                   THEN [j \in DOMAIN c \ touched |-> c[j]]
                   ELSE [j \in DOMAIN c \cup touched |->
                           IF j \in touched
                           THEN SyncData(c, d, sbi, pos(j)) ELSE c[j]]]

\* The heap after simplefs_put_super.
simplefs_put_super(fsinfo, heap) ==
    IF fsinfo # "NULL"
    THEN [sbi |-> kfree(heap.sbi),
          ifree_bitmap |-> kfree(heap.ifree_bitmap),
          bfree_bitmap |-> kfree(heap.bfree_bitmap)]
    ELSE heap

\* Every dirty buffer written to the device (sync_blockdev).
FlushAll(c, d) ==
    LET top == IF DOMAIN c = {} THEN 0
               ELSE (CHOOSE j \in DOMAIN c : \A k \in DOMAIN c : k <= j) + 1
    IN  [i \in 1..(IF top > Len(d) THEN top ELSE Len(d)) |->
            IF (i - 1) \in DOMAIN c THEN c[i - 1] ELSE ReadBlock(d, i - 1)]

----------------------------------------------------------------------------
(* The allocators that work on the mirror (outside super.c) *)

\* Bit `bit` of a bitmap (a sequence of blocks' zero bits) set used when it
\* is free, and free when it is used.
FlipBit(bitmap, bit) ==
    LET blk == (bit \div BitsPerBlock) + 1
        off == bit % BitsPerBlock
    IN  [bitmap EXCEPT ![blk] = IF off \in @ THEN @ \ {off} ELSE @ \cup {off}]

BitIsFree(bitmap, bit) ==
    (bit % BitsPerBlock) \notin bitmap[(bit \div BitsPerBlock) + 1]

\* An inode (which = "inode") or a block taken or given back: the bit set
\* used and the free counter decremented, or the bit set free and the counter
\* incremented.
Allocate(sbi, which, bit) ==
    IF which = "inode"
    THEN [sbi EXCEPT !.ifree_bitmap = FlipBit(@, bit),
                     !.nr_free_inodes =
                        IF BitIsFree(sbi.ifree_bitmap, bit) THEN @ - 1 ELSE @ + 1]
    ELSE [sbi EXCEPT !.bfree_bitmap = FlipBit(@, bit),
                     !.nr_free_blocks =
                        IF BitIsFree(sbi.bfree_bitmap, bit) THEN @ - 1 ELSE @ + 1]

----------------------------------------------------------------------------
(* The device, the format tool and one mount of the device *)

VARIABLES st_size, disk, mkfs, cache, mnt, sbi, kstat, hist, codec, race

vars == << st_size, disk, mkfs, cache, mnt, sbi, kstat, hist, codec, race >>

MaxMutations == 2

\* Device sizes around the size check of main(), the end of a bitmap word,
\* of a bitmap block's worth of blocks, and of the first block of the block
\* bitmap being filled by the used blocks.
BaseBlocks == {99, 255, 32767, 1828623}

DeviceSizes ==
    { Bytes(b + d, 0) : b \in BaseBlocks, d \in 0..MaxDelta } \cup
    { Bytes(MinSizeBlocks + d, r) :
        d \in 0..MaxDelta, r \in {1, SIMPLEFS_BLOCK_SIZE - 1} }

FailPoints ==
    {NoFail} \cup
    [step : {"sb", "istore", "ifree", "bfree"}, kind : {"malloc"}, at : {0}] \cup
    [step : {"sb", "istore", "ifree", "bfree"}, kind : {"write"},
     at : 0..MaxFailAt]

MountFails ==
    {MountNoFail} \cup
    [what : {"read_sb", "alloc_sbi", "alloc_ifree", "alloc_bfree", "iget",
             "d_make_root"}, at : {0}] \cup
    [what : {"read_ifree", "read_bfree"}, at : 0..MaxFailAt]

\* The bits the allocators take and give back.
MutBits == {5}

EmptyCache == [j \in {} |-> ZeroBlock]

NoMount ==
    [state |-> "unmounted", ret |-> 0, s_fs_info |-> "NULL", s_root |-> "NULL",
     heap |-> NoHeap, bh |-> [held |-> {}, over |-> 0], iput |-> 0]

NoStat ==
    [f_type |-> 0, f_bsize |-> 0, f_blocks |-> 0, f_bfree |-> 0,
     f_bavail |-> 0, f_files |-> 0, f_ffree |-> 0]

\* hist records what the properties speak of: the number of allocator calls
\* (nmut), the mirror that the last simplefs_sync_fs with wait set returned 0
\* for, if the mirror was not changed since (synced_ok, synced), whether a
\* mount succeeded since then (remount), and whether the magic was damaged
\* (corrupted).
\* and, when trace is set and until the next operation, the last
\* simplefs_sync_fs or umount (last):
\* its arguments, the failure met (clean: none), its status, and the device,
\* the dirty buffers and the mirror it started from.
NoLast ==
    [op |-> "none", wait |-> FALSE, rfail |-> -1, wfail |-> -1, clean |-> TRUE,
     ret |-> 0, disk |-> <<>>, cache |-> EmptyCache, sbi |-> NoSbi]

NoHist ==
    [nmut |-> 0, synced_ok |-> FALSE, synced |-> NoSbi, remount |-> FALSE,
     corrupted |-> FALSE, trace |-> FALSE, last |-> NoLast]

\* The devices whose whole life is followed: of 101 and of 113 blocks.
LifecycleSizes == { Bytes(MinSizeBlocks + 1, 0), Bytes(MinSizeBlocks + 13, 0) }

\* codec is what is followed of the superblock on hosts of either byte order:
\* the host mkfs.simplefs runs on (fmt_host) and the host that mounts (host),
\* the status of the mount (ret), the counters last encoded to block 0
\* (written), those the mount loaded (loaded), the mirror (sbi), and the bound
\* of the loop of write_inode_store (istore_bound).
NoCodecSbi ==
    [f \in {"nr_blocks", "nr_inodes", "nr_istore_blocks", "nr_ifree_blocks",
            "nr_bfree_blocks", "nr_free_inodes", "nr_free_blocks"} |->
        << 0, 0, 0, 0 >>]

NoCodec ==
    [pc |-> "off", fmt_host |-> "le", host |-> "le", ret |-> 0,
     written |-> NoCodecSbi, loaded |-> NoCodecSbi, sbi |-> NoCodecSbi,
     istore_bound |-> << 0, 0, 0, 0 >>, nalloc |-> 0]

\* race is what is followed of one simplefs_sync_fs that runs pass by pass
\* beside the allocators: where it is (pc, and pos: the position of its next
\* pass), its wait argument, the mirror, the device and the dirty buffers
\* when it was called (before, disk0, cache0), the number of allocator steps
\* (nalloc), and whether one of them ran between two passes (torn).
NoRace ==
    [pc |-> "idle", pos |-> 0, wait |-> FALSE, before |-> NoSbi,
     disk0 |-> <<>>, cache0 |-> EmptyCache, nalloc |-> 0, torn |-> FALSE]

\* inject: malloc and write failures happen in the run of mkfs.simplefs.
\* trace: the last simplefs_sync_fs or umount is recorded.
Start(inject, trace) ==
    /\ disk = <<>>
    /\ mkfs = [pc |-> "start", ret |-> 0, err |-> "none", signal |-> "none",
               written |-> 0, oob |-> FALSE, inject |-> inject,
               fail |-> NoFail, live |-> {}]
    /\ cache = EmptyCache
    /\ mnt = NoMount
    /\ sbi = NoSbi
    /\ kstat = NoStat
    /\ hist = [NoHist EXCEPT !.trace = trace]
    /\ codec = NoCodec
    /\ race = NoRace

Init == st_size \in LifecycleSizes /\ Start(FALSE, FALSE)

InitFormat == st_size \in DeviceSizes /\ Start(TRUE, FALSE)

\* mkfs.simplefs run on the device; what is known of an earlier mount that
\* failed is dropped.  A store outside the buffer of
\* write_bfree_blocks is undefined: the process is killed at the store, or at
\* the free() of the buffer, or goes on.
Format ==
    /\ mkfs.pc = "start"
    /\ mnt.state # "mounted"
    /\ \E fail \in IF mkfs.inject THEN FailPoints ELSE {NoFail} :
       \E m \in {mkfs_main(st_size, fail)} :
       \E signal \in IF m.oob THEN {"none", "SIGSEGV", "SIGABRT"} ELSE {"none"} :
       \E out \in {IF signal = "SIGSEGV" THEN SubSeq(m.out, 1, m.pre) ELSE m.out} :
         /\ disk' = WriteFrom0(disk, out)
         /\ mkfs' = [pc |-> "exited",
                     ret |-> IF signal = "none" THEN m.ret ELSE -1,
                     err |-> IF signal = "none" THEN m.err ELSE "none",
                     signal |-> signal, written |-> Len(out), oob |-> m.oob,
                     inject |-> mkfs.inject,
                     fail |-> IF m.met /\ signal # "SIGSEGV" THEN fail
                              ELSE NoFail,
                     live |-> IF signal = "none" THEN m.live
                              ELSE {"sb", "block"}]
    /\ mnt' = NoMount
    /\ hist' = [hist EXCEPT !.last = NoLast]
    /\ UNCHANGED << codec, race, st_size, cache, sbi, kstat >>

\* mount: simplefs_fill_super on a new super_block.
Mount ==
    /\ mnt.state # "mounted"
    /\ \E fail \in MountFails :
       \E r \in {fill_super(cache, disk, SizeDiv(st_size), fail)} :
         /\ mnt' = [state |-> IF r.ret = 0 THEN "mounted" ELSE "failed",
                    ret |-> r.ret, s_fs_info |-> r.s_fs_info,
                    s_root |-> r.s_root, heap |-> r.heap, bh |-> r.bh,
                    iput |-> r.iput]
         /\ sbi' = r.sbi
         /\ hist' = [hist EXCEPT !.remount = (r.ret = 0 /\ hist.synced_ok),
                                 !.last = NoLast]
    /\ kstat' = NoStat
    /\ UNCHANGED << codec, race, st_size, disk, mkfs, cache >>

Statfs ==
    /\ mnt.state = "mounted"
    /\ kstat' = simplefs_statfs(sbi)
    /\ hist' = [hist EXCEPT !.last = NoLast]
    /\ UNCHANGED << codec, race, st_size, disk, mkfs, cache, mnt, sbi >>

\* An inode or a block taken (while the free counter is not 0) or given back.
Mutate ==
    /\ mnt.state = "mounted"
    /\ hist.nmut < MaxMutations
    /\ \E which \in {"inode", "block"} : \E bit \in MutBits :
         LET bitmap == IF which = "inode" THEN sbi.ifree_bitmap
                       ELSE sbi.bfree_bitmap
             free == IF which = "inode" THEN sbi.nr_free_inodes
                     ELSE sbi.nr_free_blocks
             total == IF which = "inode" THEN sbi.nr_inodes ELSE sbi.nr_blocks
         IN  /\ bit < Len(bitmap) * BitsPerBlock
             /\ IF BitIsFree(bitmap, bit) THEN free > 0 ELSE free < total
             /\ sbi' = Allocate(sbi, which, bit)
    /\ hist' = [hist EXCEPT !.nmut = @ + 1, !.synced_ok = FALSE,
                            !.synced = NoSbi, !.remount = FALSE,
                            !.last = NoLast]
    /\ kstat' = NoStat
    /\ UNCHANGED << codec, race, st_size, disk, mkfs, cache, mnt >>

\* hist after simplefs_sync_fs(sb, wait) returned ret for the mirror m.
SyncHist(h, m, wait, ret) ==
    IF wait /\ ret = 0
    THEN [h EXCEPT !.synced_ok = TRUE, !.synced = m, !.remount = FALSE]
    ELSE h

\* What goes wrong in one simplefs_sync_fs: nothing, or the sb_bread of
\* position rfail, or (with wait set) the write of position wfail.
SyncFaults(wait) ==
    { [rfail |-> -1, wfail |-> -1] } \cup
    { [rfail |-> p, wfail |-> -1] : p \in 0..MaxFailAt } \cup
    { [rfail |-> -1, wfail |-> p] : p \in IF wait THEN 0..MaxFailAt ELSE {} }

Sync ==
    /\ mnt.state = "mounted"
    /\ \E wait \in BOOLEAN : \E f \in SyncFaults(wait) :
       \E r \in {simplefs_sync_fs(cache, disk, SizeDiv(st_size), sbi, wait,
                                  f.rfail, f.wfail)} :
         /\ disk' = r.disk
         /\ cache' = r.cache
         /\ hist' = [SyncHist(hist, sbi, wait, r.ret) EXCEPT
                        !.last = IF ~hist.trace THEN NoLast
                                 ELSE [op |-> "sync", wait |-> wait,
                                       rfail |-> f.rfail, wfail |-> f.wfail,
                                       clean |-> f.rfail = -1 /\ f.wfail = -1,
                                       ret |-> r.ret, disk |-> disk,
                                       cache |-> cache, sbi |-> sbi]]
    /\ UNCHANGED << codec, race, st_size, mkfs, mnt, sbi, kstat >>

\* The block layer writes a dirty buffer to the device.
Writeback ==
    /\ \E j \in DOMAIN cache :
         /\ disk' = WriteBlock(disk, j, cache[j])
         /\ cache' = [k \in DOMAIN cache \ {j} |-> cache[k]]
    /\ hist' = [hist EXCEPT !.last = NoLast]
    /\ UNCHANGED << codec, race, st_size, mkfs, mnt, sbi, kstat >>

\* The machine stops: memory is lost, the device stays as it is.
PowerLoss ==
    /\ mnt.state = "mounted"
    /\ cache' = EmptyCache
    /\ mnt' = NoMount
    /\ sbi' = NoSbi
    /\ kstat' = NoStat
    /\ hist' = [hist EXCEPT !.remount = FALSE, !.last = NoLast]
    /\ UNCHANGED << codec, race, st_size, disk, mkfs >>

\* kill_block_super that frees the mirror without the sync_filesystem before.
kill_block_super_without_sync(c, d, nblk, m, fsinfo, heap, f0, stops, f1) ==
    [ret |-> 0, wait |-> FALSE, disk |-> FlushAll(c, d),
     heap |-> simplefs_put_super(fsinfo, heap)]

\* kill_block_super(sb) of simplefs_kill_sb on a mounted super_block:
\* sync_filesystem calls simplefs_sync_fs(sb, 0) and then
\* simplefs_sync_fs(sb, 1) (kernels differ in going on to the second call when
\* the first one fails: stops), then simplefs_put_super is called, then the
\* dirty buffers of the device are written.  f0 and f1 are what goes wrong in
\* the two calls.  Returns the status of the last simplefs_sync_fs, whether it
\* had wait set, the device and the heap.
kill_block_super(c, d, nblk, m, fsinfo, heap, f0, stops, f1) ==
    LET r0 == simplefs_sync_fs(c, d, nblk, m, FALSE, f0.rfail, f0.wfail)
        skip == stops /\ r0.ret # 0
        r1 == IF skip THEN r0
              ELSE simplefs_sync_fs(r0.cache, r0.disk, nblk, m, TRUE,
                                    f1.rfail, f1.wfail)
    IN  [ret |-> r1.ret, wait |-> ~skip, disk |-> FlushAll(r1.cache, r1.disk),
         heap |-> simplefs_put_super(fsinfo, heap)]

\* umount of the mounted device.
Unmount ==
    /\ mnt.state = "mounted"
    /\ \E f0 \in SyncFaults(FALSE) :
       \E stops \in IF f0.rfail = -1 THEN {FALSE} ELSE BOOLEAN :
       \E f1 \in IF stops THEN { [rfail |-> -1, wfail |-> -1] }
                  ELSE SyncFaults(TRUE) :
       \E r \in {kill_block_super(cache, disk, SizeDiv(st_size), sbi,
                                  mnt.s_fs_info, mnt.heap, f0, stops, f1)} :
         /\ disk' = r.disk
         /\ mnt' = [NoMount EXCEPT !.s_fs_info = mnt.s_fs_info,
                                   !.heap = r.heap]
         /\ hist' = [SyncHist(hist, sbi, r.wait, r.ret) EXCEPT
                        !.last = IF ~hist.trace THEN NoLast
                                 ELSE [NoLast EXCEPT
                                         !.op = "umount", !.wait = r.wait,
                                         !.clean = f0.rfail = -1
                                                   /\ f1.rfail = -1
                                                   /\ f1.wfail = -1,
                                         !.ret = r.ret, !.sbi = sbi]]
    /\ cache' = EmptyCache
    /\ sbi' = NoSbi
    /\ kstat' = NoStat
    /\ UNCHANGED << codec, race, st_size, mkfs >>

\* One bit of a byte turned over.
FlipByte(byte, mask) ==
    IF (byte \div mask) % 2 = 1 THEN byte - mask ELSE byte + mask

\* The bits of the magic that are turned over: one in each of its bytes.
CorruptBits == {0, 14, 17, 30}

\* One bit of the magic of block 0 of the device turned over while the device
\* is not mounted; what is known of an earlier mount that failed is dropped.
CorruptMagic ==
    /\ mnt.state # "mounted"
    /\ ~hist.corrupted
    /\ Len(disk) >= 1
    /\ \E b \in CorruptBits :
         disk' = WriteBlock(disk, 0,
                    SbBlock([SbOf(disk[1]) EXCEPT
                               !.magic[(b \div 8) + 1] = FlipByte(@, 2 ^ (b % 8))]))
    /\ hist' = [hist EXCEPT !.corrupted = TRUE, !.synced_ok = FALSE,
                            !.synced = NoSbi, !.remount = FALSE,
                            !.last = NoLast]
    /\ mnt' = NoMount
    /\ UNCHANGED << codec, race, st_size, mkfs, cache, sbi, kstat >>

Next ==
    \/ Format
    \/ Mount
    \/ Statfs
    \/ Mutate
    \/ Sync
    \/ Writeback
    \/ PowerLoss
    \/ Unmount
    \/ CorruptMagic

Spec == Init /\ [][Next]_vars

\* The mount, the allocators, simplefs_sync_fs and umount on the device of
\* 101 blocks, the last simplefs_sync_fs or umount being recorded.
SyncSizes == { Bytes(MinSizeBlocks + 1, 0) }

InitSync == st_size \in SyncSizes /\ Start(FALSE, TRUE)

NextSync ==
    \/ Format
    \/ Mount
    \/ Mutate
    \/ Sync
    \/ Writeback
    \/ Unmount

SpecSync == InitSync /\ [][NextSync]_vars

\* Formatting and mounting alone, on every device size.
NextFormat ==
    \/ Format
    \/ Mount
    \/ Statfs

SpecFormat == InitFormat /\ [][NextFormat]_vars

----------------------------------------------------------------------------
(* The superblock on little-endian and big-endian hosts *)

Hosts == {"le", "be"}

MaxAlloc == 1

bswap32(b) == << b[4], b[3], b[2], b[1] >>

\* The uint32_t x, as its digits.
value32(x) ==
    << x % 256, (x \div 256) % 256, (x \div 65536) % 256, (x \div 16777216) % 256 >>

\* The uint32_t that a host reads from four bytes of storage.
host_load(host, b) == IF host = "le" THEN b ELSE bswap32(b)

\* The four bytes of storage that a host writes a uint32_t as.
host_store(host, v) == IF host = "le" THEN v ELSE bswap32(v)

\* htole32(v): the uint32_t it returns on a host.
host_htole32(host, v) == IF host = "le" THEN v ELSE bswap32(v)

\* sb->info = (struct simplefs_sb_info){ .magic = htole32(SIMPLEFS_MAGIC), ... }
\* as the bytes of the struct in the memory of the host
HostSbInfo(host, g) ==
    LET enc(x) == host_store(host, host_htole32(host, value32(x))) IN
    [magic |-> enc(SIMPLEFS_MAGIC),
     nr_blocks |-> enc(g.nr_blocks),
     nr_inodes |-> enc(g.nr_inodes),
     nr_istore_blocks |-> enc(g.nr_istore_blocks),
     nr_ifree_blocks |-> enc(g.nr_ifree_blocks),
     nr_bfree_blocks |-> enc(g.nr_bfree_blocks),
     nr_free_inodes |-> enc(g.nr_inodes - 1),
     nr_free_blocks |-> enc(g.nr_data_blocks - 1)]

\* The counters that write_superblock encodes for the geometry g.
EncodedCounters(g) ==
    [nr_blocks |-> value32(g.nr_blocks),
     nr_inodes |-> value32(g.nr_inodes),
     nr_istore_blocks |-> value32(g.nr_istore_blocks),
     nr_ifree_blocks |-> value32(g.nr_ifree_blocks),
     nr_bfree_blocks |-> value32(g.nr_bfree_blocks),
     nr_free_inodes |-> value32(g.nr_inodes - 1),
     nr_free_blocks |-> value32(g.nr_data_blocks - 1)]

\* csb->magic != sb->s_magic on a host
HostMagicOk(host, csb) == host_load(host, csb.magic) = value32(SIMPLEFS_MAGIC)

\* sbi->... = csb->... of lines 314 to 320 on a host
HostCopyCounters(host, csb) ==
    [f \in DOMAIN NoCodecSbi |-> host_load(host, csb[f])]

\* disk_sb->... = sbi->... of lines 202 to 208 on a host: the block written
HostSyncSb(host, blk, m) ==
    SbBlock([f \in DOMAIN SbOf(blk) |->
                IF f = "magic" THEN SbOf(blk).magic ELSE host_store(host, m[f])])

\* The device sizes that main() accepts.
CodecSizes == { sz \in DeviceSizes : ~SizeLeq(sz, min_size) }

InitCodec ==
    /\ st_size \in CodecSizes
    /\ Start(FALSE, FALSE)

\* write_superblock of mkfs.simplefs run on a host, and the bound that
\* write_inode_store reads for its loop (i < sb->info.nr_istore_blocks).
CodecFormat ==
    /\ codec.pc = "off"
    /\ \E host \in Hosts :
       \E info \in {HostSbInfo(host, Geometry(st_size))} :
         /\ disk' = WriteFrom0(disk, << SbBlock(info) >>)
         /\ codec' = [codec EXCEPT
                         !.pc = "formatted", !.fmt_host = host,
                         !.written = EncodedCounters(Geometry(st_size)),
                         !.istore_bound = host_load(host, info.nr_istore_blocks)]
    /\ UNCHANGED << race, st_size, mkfs, cache, mnt, sbi, kstat, hist >>

\* simplefs_fill_super on a host, up to the copy of the counters.
CodecMount ==
    /\ codec.pc \in {"formatted", "failed"}
    /\ \E host \in Hosts :
       \E csb \in {SbOf(ReadBlock(disk, SIMPLEFS_SB_BLOCK_NR))} :
         codec' = IF HostMagicOk(host, csb)
                  THEN [codec EXCEPT !.pc = "mounted", !.host = host, !.ret = 0,
                                     !.sbi = HostCopyCounters(host, csb),
                                     !.loaded = HostCopyCounters(host, csb)]
                  ELSE [codec EXCEPT !.pc = "failed", !.host = host,
                                     !.ret = -EINVAL, !.sbi = NoCodecSbi,
                                     !.loaded = NoCodecSbi]
    /\ UNCHANGED << race, st_size, disk, mkfs, cache, mnt, sbi, kstat, hist >>

\* An inode or a block taken: the free counter of the mirror decremented.
CodecAllocate ==
    /\ codec.pc = "mounted"
    /\ codec.nalloc < MaxAlloc
    /\ \E f \in {"nr_free_inodes", "nr_free_blocks"} :
         /\ codec.sbi[f][4] < 128
         /\ le32toh(codec.sbi[f]) > 0
         /\ codec' = [codec EXCEPT !.sbi[f] = value32(le32toh(@) - 1),
                                   !.nalloc = @ + 1]
    /\ UNCHANGED << race, st_size, disk, mkfs, cache, mnt, sbi, kstat, hist >>

\* The superblock pass of simplefs_sync_fs(sb, 1) on the host that mounted.
CodecSync ==
    /\ codec.pc = "mounted"
    /\ disk' = WriteBlock(disk, SIMPLEFS_SB_BLOCK_NR,
                          HostSyncSb(codec.host,
                                     ReadBlock(disk, SIMPLEFS_SB_BLOCK_NR),
                                     codec.sbi))
    /\ codec' = [codec EXCEPT !.written = codec.sbi]
    /\ UNCHANGED << race, st_size, mkfs, cache, mnt, sbi, kstat, hist >>

\* umount after a sync: the device is left for a host to mount.
CodecUnmount ==
    /\ codec.pc = "mounted"
    /\ codec.written = codec.sbi
    /\ codec' = [codec EXCEPT !.pc = "formatted", !.sbi = NoCodecSbi,
                              !.loaded = NoCodecSbi]
    /\ UNCHANGED << race, st_size, disk, mkfs, cache, mnt, sbi, kstat, hist >>

NextCodec ==
    \/ CodecFormat
    \/ CodecMount
    \/ CodecAllocate
    \/ CodecSync
    \/ CodecUnmount

SpecCodec == InitCodec /\ [][NextCodec]_vars

----------------------------------------------------------------------------
(* simplefs_sync_fs beside the allocators *)

MaxRaceAlloc == 1

\* One pass of simplefs_sync_fs, of position p: sb_bread, the copy from the
\* mirror, mark_buffer_dirty, sync_dirty_buffer when wait is set, brelse.
sync_pass(c, d, m, wait, p) ==
    LET idx == SyncIdx(m, p)
        data == SyncData(c, d, m, p)
    IN  IF wait
        THEN [disk |-> WriteBlock(d, idx, data),
              cache |-> [j \in DOMAIN c \ {idx} |-> c[j]]]
        ELSE [disk |-> d,
              cache |-> [j \in DOMAIN c \cup {idx} |->
                           IF j = idx THEN data ELSE c[j]]]

\* simplefs_sync_fs(sb, wait) is entered.
SyncBegin ==
    /\ mnt.state = "mounted"
    /\ race.pc = "idle"
    /\ \E wait \in BOOLEAN :
         race' = [race EXCEPT !.pc = "syncing", !.pos = 0, !.wait = wait,
                              !.before = sbi, !.disk0 = disk, !.cache0 = cache]
    /\ UNCHANGED << st_size, disk, mkfs, cache, mnt, sbi, kstat, hist, codec >>

\* The next pass of the simplefs_sync_fs that runs; after the last pass it
\* returns 0.
SyncPass ==
    /\ race.pc = "syncing"
    /\ \E r \in {sync_pass(cache, disk, sbi, race.wait, race.pos)} :
         /\ disk' = r.disk
         /\ cache' = r.cache
    /\ race' = [race EXCEPT
                   !.pos = @ + 1,
                   !.pc = IF race.pos + 1 = SyncCount(sbi) THEN "done"
                          ELSE "syncing"]
    /\ UNCHANGED << st_size, mkfs, mnt, sbi, kstat, hist, codec >>

\* One step of an allocator on the mirror, whatever simplefs_sync_fs does:
\* an inode or a block taken (the bit set used and the free counter
\* decremented) or given back (the bit set free and the counter incremented).
RaceAllocate ==
    /\ mnt.state = "mounted"
    /\ race.nalloc < MaxRaceAlloc
    /\ \E which \in {"inode", "block"} : \E bit \in {0} \cup MutBits :
         sbi' = Allocate(sbi, which, bit + race.nalloc)
    /\ race' = [race EXCEPT
                   !.nalloc = @ + 1,
                   !.torn = @ \/ (race.pc = "syncing" /\ race.pos > 0)]
    /\ UNCHANGED << st_size, disk, mkfs, cache, mnt, kstat, hist, codec >>

NextRace ==
    \/ Format
    \/ Mount
    \/ SyncBegin
    \/ SyncPass
    \/ RaceAllocate

SpecRace == Init /\ [][NextRace]_vars

----------------------------------------------------------------------------
(* What the properties read from the state *)

\* The counters of block 0 of the device, decoded as little-endian.
OnDisk ==
    LET csb == SbOf(ReadBlock(disk, 0)) IN
    [nr_blocks |-> le32toh(csb.nr_blocks),
     nr_inodes |-> le32toh(csb.nr_inodes),
     nr_istore_blocks |-> le32toh(csb.nr_istore_blocks),
     nr_ifree_blocks |-> le32toh(csb.nr_ifree_blocks),
     nr_bfree_blocks |-> le32toh(csb.nr_bfree_blocks),
     nr_free_inodes |-> le32toh(csb.nr_free_inodes),
     nr_free_blocks |-> le32toh(csb.nr_free_blocks)]

\* The index of the first block after the superblock, the inode store and the
\* two bitmaps.
FirstDataBlock(g) ==
    1 + g.nr_istore_blocks + g.nr_ifree_blocks + g.nr_bfree_blocks

\* The number of blocks from the first data block to the last block.
DataRegion(g) == g.nr_blocks - FirstDataBlock(g)

\* The n blocks of the device from block `first`, as a bitmap.
DiskBitmap(first, n) ==
    [i \in 1..n |-> ZeroBits(ReadBlock(disk, first + i - 1))]

ImageIfree == DiskBitmap(OnDisk.nr_istore_blocks + 1, OnDisk.nr_ifree_blocks)

ImageBfree ==
    DiskBitmap(OnDisk.nr_istore_blocks + OnDisk.nr_ifree_blocks + 1,
               OnDisk.nr_bfree_blocks)

\* The number of used (0) bits of a bitmap at the indices lo .. hi - 1.
RECURSIVE UsedFrom(_, _, _, _)
UsedFrom(bitmap, i, lo, hi) ==
    IF i > Len(bitmap) THEN 0
    ELSE Cardinality({ z \in bitmap[i] :
                         /\ (i - 1) * BitsPerBlock + z >= lo
                         /\ (i - 1) * BitsPerBlock + z < hi })
           + UsedFrom(bitmap, i + 1, lo, hi)

UsedIn(bitmap, lo, hi) == UsedFrom(bitmap, 1, lo, hi)

\* The index of the lowest free (1) bit of a bitmap: the number of its bits
\* when it has none.
RECURSIVE LowestFreeFrom(_, _)
LowestFreeFrom(bitmap, i) ==
    IF i > Len(bitmap) THEN Len(bitmap) * BitsPerBlock
    ELSE IF Cardinality(bitmap[i]) = BitsPerBlock
         THEN LowestFreeFrom(bitmap, i + 1)
         ELSE (i - 1) * BitsPerBlock
                + (CHOOSE z \in 0..(BitsPerBlock - 1) :
                     z \notin bitmap[i] /\ \A y \in 0..(z - 1) : y \in bitmap[i])

LowestFree(bitmap) == LowestFreeFrom(bitmap, 1)

\* Every bit of the bitmap from index n to the end of its last block is used.
PaddingUsed(bitmap, n) ==
    \A b \in n..(Len(bitmap) * BitsPerBlock - 1) : ~BitIsFree(bitmap, b)

\* The bits lo .. hi - 1 of the bitmap are used below n and free from n on.
RECURSIVE UsedBelowFrom(_, _, _, _)
UsedBelowFrom(bitmap, i, n, hi) ==
    \/ i > Len(bitmap)
    \/ LET base == (i - 1) * BitsPerBlock
           top == IF n < hi THEN n - base ELSE hi - base
       IN  /\ { z \in bitmap[i] : base + z < hi }
                = 0..((IF top > BitsPerBlock THEN BitsPerBlock ELSE top) - 1)
           /\ UsedBelowFrom(bitmap, i + 1, n, hi)

UsedBelow(bitmap, n, hi) == UsedBelowFrom(bitmap, 1, n, hi)

\* mkfs.simplefs ended with EXIT_SUCCESS, and the image is as it wrote it.
Formatted ==
    /\ mkfs.pc = "exited"
    /\ mkfs.ret = EXIT_SUCCESS
    /\ hist.nmut = 0
    /\ ~hist.corrupted

Mounted == mnt.state = "mounted"

----------------------------------------------------------------------------
(* Properties, checked under SpecFormat *)

\* C1: for every device size that format accepts, the geometry of
\* write_superblock satisfies nr_blocks = 1 + nr_istore_blocks +
\* nr_ifree_blocks + nr_bfree_blocks + nr_data_blocks, nr_data_blocks being
\* the count that gives the free-block counter of the image
\* (nr_free_blocks = nr_data_blocks - 1).
C1_GeometrySum ==
    (mkfs.pc = "exited" /\ mkfs.written >= 1) =>
        LET g == Geometry(st_size) IN
        /\ OnDisk.nr_free_blocks = g.nr_data_blocks - 1
        /\ g.nr_blocks = 1 + g.nr_istore_blocks + g.nr_ifree_blocks
                           + g.nr_bfree_blocks + g.nr_data_blocks

\* The 101-block device: 2 + 1 + 1 + 97 = 101, the superblock left out.
C1_Witness ==
    /\ mkfs.pc = "exited" /\ mkfs.written >= 1
    /\ LET g == Geometry(st_size) IN
       /\ g.nr_blocks = 101
       /\ g.nr_data_blocks = 97
       /\ OnDisk.nr_free_blocks = 96
       /\ g.nr_blocks = g.nr_istore_blocks + g.nr_ifree_blocks
                          + g.nr_bfree_blocks + g.nr_data_blocks

\* C2: after a successful format, and after a successful mount of the image
\* (in the mirror, and in what statfs reports), nr_free_inodes = nr_inodes - 1
\* and nr_free_blocks = data_blocks - 1, data_blocks being the number of
\* blocks from the first data block to block nr_blocks - 1.
C2_FreeCounters ==
    Formatted =>
        LET d == OnDisk IN
        /\ d.nr_free_inodes = d.nr_inodes - 1
        /\ d.nr_free_blocks = DataRegion(d) - 1
        /\ Mounted =>
             /\ sbi.nr_free_inodes = sbi.nr_inodes - 1
             /\ sbi.nr_free_blocks = DataRegion(d) - 1
        /\ (Mounted /\ kstat # NoStat) =>
             /\ kstat.f_ffree = d.nr_inodes - 1
             /\ kstat.f_bfree = DataRegion(d) - 1

\* statfs reports as many free blocks as the data region has blocks, the
\* block of the root directory among them.
C2_Witness ==
    /\ Formatted /\ Mounted /\ kstat # NoStat
    /\ kstat.f_ffree = OnDisk.nr_inodes - 1
    /\ kstat.f_bfree = DataRegion(OnDisk)
    /\ sbi.nr_free_blocks = DataRegion(OnDisk)
    /\ OnDisk.nr_free_blocks = DataRegion(OnDisk)

\* The counters g agree with the bitmaps ifree and bfree.
CountersAgree(g, ifree, bfree) ==
    /\ UsedIn(ifree, 0, g.nr_inodes) = g.nr_inodes - g.nr_free_inodes
    /\ UsedIn(bfree, FirstDataBlock(g), g.nr_blocks)
         = DataRegion(g) - g.nr_free_blocks
    /\ g.nr_blocks - UsedIn(bfree, 0, g.nr_blocks) = g.nr_free_blocks

\* C3: in the image format writes, and in the mirror mount loads from it, the
\* used bits of the inode bitmap number nr_inodes - nr_free_inodes, the used
\* bits of the block bitmap at data-block indices number
\* data_blocks - nr_free_blocks, and the free bits at the indices
\* 0 .. nr_blocks - 1 number nr_free_blocks.
C3_CountersAgreeWithBitmaps ==
    Formatted =>
        /\ CountersAgree(OnDisk, ImageIfree, ImageBfree)
        /\ Mounted => CountersAgree(sbi, sbi.ifree_bitmap, sbi.bfree_bitmap)

\* The inode counter agrees with its bitmap; the block counter is one more
\* than the number of free bits.
C3_Witness ==
    /\ Formatted /\ Mounted
    /\ UsedIn(sbi.ifree_bitmap, 0, sbi.nr_inodes)
         = sbi.nr_inodes - sbi.nr_free_inodes
    /\ sbi.nr_blocks - UsedIn(sbi.bfree_bitmap, 0, sbi.nr_blocks)
         = sbi.nr_free_blocks - 1
    /\ OnDisk.nr_blocks - UsedIn(ImageBfree, 0, OnDisk.nr_blocks)
         = OnDisk.nr_free_blocks - 1

\* C4: after format every padding bit is used (0): the bits of the inode
\* bitmap from index nr_inodes, and the bits of the block bitmap from index
\* nr_blocks, to the end of the last block of the bitmap.
C4_PaddingUsed ==
    Formatted =>
        /\ PaddingUsed(ImageIfree, OnDisk.nr_inodes)
        /\ PaddingUsed(ImageBfree, OnDisk.nr_blocks)

\* The first padding bit of each bitmap is free (1).
C4_Witness ==
    /\ Formatted
    /\ OnDisk.nr_inodes < OnDisk.nr_ifree_blocks * BitsPerBlock
    /\ BitIsFree(ImageIfree, OnDisk.nr_inodes)
    /\ OnDisk.nr_blocks < OnDisk.nr_bfree_blocks * BitsPerBlock
    /\ BitIsFree(ImageBfree, OnDisk.nr_blocks)

\* The number of blocks write_bfree_blocks is to mark used: the superblock,
\* the inode store, the two bitmaps and the block of the root directory.
UsedCount(g) == FirstDataBlock(g) + 1

\* C5, as the code has it: after format the lowest free bit of the inode
\* bitmap is bit 1, and the lowest free bit of the block bitmap is the bit
\* after the first data block (which the root directory holds), that is bit
\* N = 2 + nr_istore_blocks + nr_ifree_blocks + nr_bfree_blocks, unless N is
\* more than the bits of one block: then it is the first bit of the second
\* block of the bitmap.
C5_LowestFreeBits ==
    Formatted =>
        /\ LowestFree(ImageIfree) = 1
        /\ LowestFree(ImageBfree) =
             IF UsedCount(OnDisk) <= BitsPerBlock THEN UsedCount(OnDisk)
             ELSE BitsPerBlock

\* The 101-block device: the first data block is block 5, the lowest free bit
\* of the block bitmap is bit 6.
C5_Witness ==
    /\ Formatted
    /\ OnDisk.nr_blocks = 101
    /\ FirstDataBlock(OnDisk) = 5
    /\ LowestFree(ImageIfree) = 1
    /\ LowestFree(ImageBfree) = 6

\* C5 as it was stated: the lowest free bit of the block bitmap is the first
\* data block.
C5_AsStated ==
    Formatted =>
        /\ LowestFree(ImageIfree) = 1
        /\ LowestFree(ImageBfree) = FirstDataBlock(OnDisk)

\* C6: for every accepted geometry write_bfree_blocks stores no word outside
\* its one-block buffer, and the block bitmap it writes has the bits
\* 0 .. N - 1 used and the bits N .. nr_blocks - 1 free.
C6_UsedBitsCarried ==
    /\ mkfs.pc = "exited" => ~mkfs.oob
    /\ Formatted => UsedBelow(ImageBfree, UsedCount(OnDisk), OnDisk.nr_blocks)

\* A device whose used count is one more than the bits of a block: a word was
\* stored past the buffer, and bit N - 1 of the image is free.
C6_Witness ==
    /\ Formatted
    /\ mkfs.oob
    /\ UsedCount(OnDisk) = BitsPerBlock + 1
    /\ BitIsFree(ImageBfree, BitsPerBlock)
    /\ ~BitIsFree(ImageBfree, BitsPerBlock - 1)

----------------------------------------------------------------------------
(* Properties, checked under Spec *)

\* The magic of block 0, as sb_bread gives the block, is not SIMPLEFS_MAGIC.
BadMagic ==
    FieldAt(Bread(cache, disk, SIMPLEFS_SB_BLOCK_NR), 0)
        # htole32(SIMPLEFS_MAGIC)

\* C8: simplefs_fill_super of an image whose magic is not SIMPLEFS_MAGIC never
\* succeeds: it returns -EINVAL (or -EIO when block 0 could not be read), with
\* no mirror and no bitmap allocated, s_fs_info and s_root not set, and the
\* buffer of block 0 released once.
C8_BadMagicRefused ==
    (mnt.state # "unmounted" /\ BadMagic) =>
        /\ mnt.state = "failed"
        /\ mnt.ret \in {-EINVAL, -EIO}
        /\ mnt.heap = NoHeap
        /\ sbi = NoSbi
        /\ mnt.s_fs_info = "NULL"
        /\ mnt.s_root = "NULL"
        /\ mnt.bh = [held |-> {}, over |-> 0]

\* A formatted image with one bit of its magic turned over was refused.
C8_Witness ==
    /\ mnt.state = "failed"
    /\ mkfs.ret = EXIT_SUCCESS /\ mkfs.pc = "exited"
    /\ hist.corrupted
    /\ BadMagic
    /\ mnt.ret = -EINVAL

\* C9: when a step of mount fails after the mirror was allocated, mount
\* returns an error with the mirror and both bitmap buffers freed, nothing
\* kept in memory, and s_fs_info no longer designating the freed mirror.
C9_FailedMountCleansUp ==
    (mnt.state = "failed" /\ mnt.heap.sbi # "none") =>
        /\ mnt.ret < 0
        /\ mnt.heap.sbi = "freed"
        /\ mnt.heap.ifree_bitmap \in {"none", "freed"}
        /\ mnt.heap.bfree_bitmap \in {"none", "freed"}
        /\ mnt.s_root = "NULL"
        /\ sbi = NoSbi
        /\ mnt.s_fs_info = "NULL"

\* The read of a block of the block bitmap failed: all three are freed, and
\* s_fs_info still holds the address of the mirror.
C9_Witness ==
    /\ mnt.state = "failed"
    /\ mnt.ret = -EIO
    /\ mnt.heap = [sbi |-> "freed", ifree_bitmap |-> "freed",
                   bfree_bitmap |-> "freed"]
    /\ mnt.s_fs_info = "sbi"

\* C10: once simplefs_sync_fs with wait set has returned 0 for a mirror, a
\* later simplefs_fill_super of the same storage loads counters and bitmaps
\* equal to that mirror.
C10_SyncMountRoundTrip ==
    (Mounted /\ hist.synced_ok /\ hist.remount) => sbi = hist.synced

\* A mirror with inode 5 taken was synced, the write of the inode bitmap
\* failing unseen: the mount after it loads the new counters and the old
\* bitmap.
C10_Witness ==
    /\ Mounted /\ hist.synced_ok /\ hist.remount
    /\ sbi.nr_free_inodes = hist.synced.nr_free_inodes
    /\ ~BitIsFree(hist.synced.ifree_bitmap, 5)
    /\ BitIsFree(sbi.ifree_bitmap, 5)

----------------------------------------------------------------------------
(* simplefs_sync_fs met by a failing block access, checked under SpecSync *)

\* The position of the block access that failed in the last simplefs_sync_fs.
LastFailPos ==
    IF hist.last.rfail # -1 THEN hist.last.rfail ELSE hist.last.wfail

\* The block of index idx is, on the device and among the dirty buffers, as
\* it was when the last simplefs_sync_fs started.
Untouched(idx) ==
    /\ ReadBlock(disk, idx) = ReadBlock(hist.last.disk, idx)
    /\ (idx \in DOMAIN cache) = (idx \in DOMAIN hist.last.cache)
    /\ (idx \in DOMAIN cache => cache[idx] = hist.last.cache[idx])

\* The block of position p holds what the last simplefs_sync_fs copied to
\* it: on the device when wait was set, else in its dirty buffer.
NewlyWritten(p) ==
    LET l == hist.last
        idx == SyncIdx(l.sbi, p)
        data == SyncData(l.cache, l.disk, l.sbi, p)
    IN  IF l.wait THEN ReadBlock(disk, idx) = data /\ idx \notin DOMAIN cache
        ELSE idx \in DOMAIN cache /\ cache[idx] = data

\* The last operation was a simplefs_sync_fs in which the block access of
\* one of its positions failed.
SyncFailed ==
    /\ hist.last.op = "sync"
    /\ ~hist.last.clean
    /\ LastFailPos < SyncCount(hist.last.sbi)

\* C11: when a block access fails at position k of simplefs_sync_fs, the
\* call returns -EIO, no block of a position after k is written, the blocks of
\* the positions before k hold their new contents, and the mirror is as it
\* was before the call.
C11_FailureStopsSync ==
    SyncFailed =>
        /\ hist.last.ret = -EIO
        /\ \A p \in (LastFailPos + 1)..(SyncCount(hist.last.sbi) - 1) :
              Untouched(SyncIdx(hist.last.sbi, p))
        /\ \A p \in 0..(LastFailPos - 1) : NewlyWritten(p)
        /\ sbi = hist.last.sbi

\* The part of C11 that sb_bread returning NULL at position k has.
C11_ReadFailureStopsSync ==
    (SyncFailed /\ hist.last.rfail # -1) =>
        /\ hist.last.ret = -EIO
        /\ \A p \in LastFailPos..(SyncCount(hist.last.sbi) - 1) :
              Untouched(SyncIdx(hist.last.sbi, p))
        /\ \A p \in 0..(LastFailPos - 1) : NewlyWritten(p)
        /\ sbi = hist.last.sbi

\* The write of the superblock (position 0) failed inside sync_dirty_buffer
\* while an inode was taken: simplefs_sync_fs returned 0 and went on to write
\* the inode bitmap of position 1.
C11_WriteFailureUnseen ==
    /\ SyncFailed
    /\ hist.last.wfail = 0
    /\ hist.last.ret = 0
    /\ ~BitIsFree(sbi.ifree_bitmap, 5)
    /\ ~Untouched(SyncIdx(hist.last.sbi, 1))
    /\ NewlyWritten(1)

----------------------------------------------------------------------------
(* umount, checked under SpecSync *)

\* The mirror that simplefs_fill_super loads from the device as it is.
MirrorOnDevice ==
    fill_super(EmptyCache, disk, SizeDiv(st_size), MountNoFail).sbi

\* The last operation was a umount: simplefs_put_super has freed the mirror
\* and both bitmaps.
Unmounted ==
    /\ hist.last.op = "umount"
    /\ mnt.heap = [sbi |-> "freed", ifree_bitmap |-> "freed",
                   bfree_bitmap |-> "freed"]

----------------------------------------------------------------------------
(* Properties, checked under SpecCodec *)

\* simplefs_fill_super has just run, on a host of either byte order.
CodecMountTried ==
    codec.pc = "failed" \/ (codec.pc = "mounted" /\ codec.sbi = codec.loaded)

\* C13: on little-endian and big-endian hosts alike, the superblock written
\* by format, or written again by sync, is accepted by mount (the magic is
\* read as SIMPLEFS_MAGIC) and the counters mount loads are the counters that
\* were encoded.
C13_SameByteOrderOnEveryHost ==
    CodecMountTried =>
        /\ codec.ret = 0
        /\ codec.loaded = codec.written

\* A big-endian host refuses the image a little-endian host formatted: its
\* simplefs_fill_super reads the magic as 0xCEADDE00.
C13_BigEndianMountRefused ==
    /\ codec.pc = "failed"
    /\ codec.fmt_host = "le"
    /\ codec.host = "be"
    /\ codec.ret = -EINVAL
    /\ host_load("be", SbOf(ReadBlock(disk, 0)).magic) = << 0, 222, 173, 206 >>

\* The part of C13 that little-endian hosts that mount have, whatever host
\* formatted.
C13_LittleEndianMount ==
    (CodecMountTried /\ codec.host = "le") =>
        /\ codec.ret = 0
        /\ codec.loaded = codec.written

\* mkfs.simplefs on any host writes the bytes that htole32 of the model gives.
C13_FormatBytesLittleEndian ==
    (codec.pc = "formatted" /\ codec.nalloc = 0) =>
        SbOf(ReadBlock(disk, 0)) = SbInfo(Geometry(st_size))

\* write_inode_store on a big-endian host reads a loop bound that is not
\* the number of inode store blocks.
C13_BigEndianLoopBound ==
    /\ codec.pc = "formatted"
    /\ codec.fmt_host = "be"
    /\ codec.istore_bound # codec.written.nr_istore_blocks

----------------------------------------------------------------------------
(* The layout, checked under SpecFormat *)

\* The regions of the image of geometry g, as sets of block indices.
InodeStoreRegion(g) == 1..g.nr_istore_blocks

IfreeRegion(g) ==
    (g.nr_istore_blocks + 1)..(g.nr_istore_blocks + g.nr_ifree_blocks)

BfreeRegion(g) ==
    (g.nr_istore_blocks + g.nr_ifree_blocks + 1)..
        (g.nr_istore_blocks + g.nr_ifree_blocks + g.nr_bfree_blocks)

\* The blocks that mkfs.simplefs wrote are: the superblock, the inode store
\* with the root inode first and zeroes after, the inode bitmap with inode 0
\* alone used in its first block, and the block bitmap.
FormatLayout(g) ==
    /\ mkfs.written = FirstDataBlock(g)
    /\ Len(disk) = FirstDataBlock(g)
    /\ disk[1].kind = "sb"
    /\ \A i \in InodeStoreRegion(g) :
          disk[i + 1].kind = (IF i = 1 THEN "inodes" ELSE "zero")
    /\ \A i \in IfreeRegion(g) \cup BfreeRegion(g) : disk[i + 1].kind = "bitmap"
    /\ disk[g.nr_istore_blocks + 2].zeros = {0}
    /\ {0, 1} \subseteq disk[g.nr_istore_blocks + g.nr_ifree_blocks + 2].zeros

----------------------------------------------------------------------------
(* The run of mkfs.simplefs, checked under SpecFormat *)

\* The first block and the number of blocks of the region a step writes.
StepStart(g, step) ==
    IF step = "sb" THEN 0
    ELSE IF step = "istore" THEN 1
    ELSE IF step = "ifree" THEN 1 + g.nr_istore_blocks
    ELSE 1 + g.nr_istore_blocks + g.nr_ifree_blocks

StepCount(g, step) ==
    IF step = "sb" THEN 1
    ELSE IF step = "istore" THEN g.nr_istore_blocks
    ELSE IF step = "ifree" THEN g.nr_ifree_blocks
    ELSE g.nr_bfree_blocks

\* A malloc or a write of the run failed, and the run was not killed.
FailureMet ==
    /\ mkfs.pc = "exited"
    /\ mkfs.signal = "none"
    /\ mkfs.fail # NoFail

\* Block i of the device is a block of the region that holds index i.
InItsRegion(g, i) ==
    IF i = 0 THEN disk[i + 1].kind = "sb"
    ELSE IF i = 1 THEN disk[i + 1].kind = "inodes"
    ELSE IF i \in InodeStoreRegion(g) THEN disk[i + 1].kind = "zero"
    ELSE IF i = g.nr_istore_blocks + 1 THEN disk[i + 1] = BitmapBlock({0})
    ELSE disk[i + 1].kind = "bitmap"

\* C15: mkfs.simplefs writes the superblock, the inode store, the inode
\* bitmap and the block bitmap in this order; when a write (or a malloc)
\* of a step fails, the blocks before it are the only blocks written, every
\* buffer is freed and the exit status is not 0; the exit status is 0 only
\* when every block of the four regions was written.  (The run is looked at
\* as it exits, before the device is mounted.)
C15_FormatStopsAtFailure ==
    (mkfs.pc = "exited" /\ mnt.state = "unmounted") =>
        LET g == Geometry(st_size) IN
        /\ mkfs.written = Len(disk)
        /\ mkfs.written <= FirstDataBlock(g)
        /\ \A i \in 0..(mkfs.written - 1) : InItsRegion(g, i)
        /\ FailureMet =>
             /\ mkfs.ret # EXIT_SUCCESS
             /\ mkfs.written = StepStart(g, mkfs.fail.step)
                                 + (IF mkfs.fail.kind = "write"
                                    THEN mkfs.fail.at ELSE 0)
             /\ mkfs.live = {}
        /\ mkfs.ret = EXIT_SUCCESS =>
             /\ mkfs.written = FirstDataBlock(g)
             /\ ~FailureMet
             /\ mkfs.live = {}

\* The second write of write_inode_store failed: the superblock and the
\* block of the root inode are the blocks written, and the status is 1.
C15_Witness ==
    /\ FailureMet /\ mnt.state = "unmounted"
    /\ mkfs.fail = [step |-> "istore", kind |-> "write", at |-> 1]
    /\ mkfs.written = 2
    /\ mkfs.ret = EXIT_FAILURE
    /\ mkfs.live = {}

----------------------------------------------------------------------------
(* Properties, checked under SpecRace *)

\* The mirror that a mount would load from what simplefs_sync_fs has written
\* (the device, and the dirty buffers over it).
MirrorWritten ==
    fill_super(cache, disk, SizeDiv(st_size), MountNoFail).sbi

\* C16: whatever allocator step runs beside one simplefs_sync_fs, the
\* counters and the bitmaps that this simplefs_sync_fs has written are those
\* of one state of the mirror: the mirror before the step or the mirror after
\* it.
C16_SyncWritesOneState ==
    race.pc = "done" =>
        MirrorWritten = race.before \/ MirrorWritten = sbi

\* Inode 5 was taken after the superblock pass and before the pass of the
\* inode bitmap: the device holds the free-inode counter of before the step
\* and the bitmap of after it.
C16_TornSync ==
    /\ race.pc = "done" /\ race.torn /\ race.wait
    /\ OnDisk.nr_free_inodes = race.before.nr_free_inodes
    /\ sbi.nr_free_inodes = race.before.nr_free_inodes - 1
    /\ ~BitIsFree(ImageIfree, 5)
    /\ BitIsFree(race.before.ifree_bitmap, 5)

\* With no allocator step between two passes, the passes write what
\* simplefs_sync_fs writes as a whole, and it is one state of the mirror.
C16_UntornSync ==
    (race.pc = "done" /\ ~race.torn) =>
        /\ MirrorWritten = race.before \/ MirrorWritten = sbi
        /\ \E m \in {race.before, sbi} :
             LET r == simplefs_sync_fs(race.cache0, race.disk0,
                                       SizeDiv(st_size), m, race.wait, -1, -1)
             IN  r.ret = 0 /\ disk = r.disk /\ cache = r.cache

----------------------------------------------------------------------------
(* The buffers of simplefs_fill_super, checked under Spec *)

\* C17: when simplefs_fill_super has returned, with 0 or with an error, every
\* buffer that sb_bread gave it was released once: none is still held and
\* brelse was called on none that was released before.
C17_BuffersReleasedOnce ==
    mnt.state \in {"mounted", "failed"} =>
        mnt.bh = [held |-> {}, over |-> 0]

\* kzalloc of the inode bitmap failed: the buffer of the superblock,
\* released after the copy of the counters, was released again at the label
\* release.
C17_DoubleRelease ==
    /\ mnt.state = "failed"
    /\ mnt.ret = -ENOMEM
    /\ mnt.heap.ifree_bitmap = "none"
    /\ mnt.bh = [held |-> {}, over |-> 1]

\* The part of C17 that the paths have on which bh is NULL or still held at
\* the label release, and the path that returns 0: no buffer is left held,
\* and when the mount succeeded or failed on a block read or on the magic,
\* none was released twice.
C17_NoBufferLeftHeld ==
    mnt.state \in {"mounted", "failed"} =>
        /\ mnt.bh.held = {}
        /\ (mnt.ret \in {0, -EIO, -EINVAL}) => mnt.bh.over = 0

====
